---------------------------- MODULE Spec2Model ----------------------------
(* Verification model of the user-account service: value objects, the     *)
(* Entity base and User aggregate, the EventDispatcher, the repositories  *)
(* and the Create/Get/Update/Delete use cases.                            *)
(*                                                                        *)
(* Strings are sequences of one-character strings, so that len(), strip() *)
(* and the email regular expression are computed, not assumed.            *)
EXTENDS Integers, Sequences, FiniteSets, TLC

(**************************************************************************)
(* Bounds of the model (not program constants).                           *)
(**************************************************************************)
MaxIds == 2        \* ObjectId() calls per behaviour
MaxPool == 2       \* User objects alive in the entity specification
MaxEvents == 3     \* domain events created per behaviour
MaxSubs == 3       \* subscribe() calls in the dispatcher specification
MaxBatch == 2      \* length of a batch handed to dispatch()
MaxExec == 2       \* use-case executions per behaviour

(**************************************************************************)
(* Program constants.                                                     *)
(**************************************************************************)
MinNameLen == 2
MaxNameLen == 100
MinAge == 0
MaxAge == 150
AdultAge == 18
MaxEmailLen == 254
MinTldLen == 2

None == "None"
NoError == "NoError"

(**************************************************************************)
(* Characters and strings.                                                *)
(**************************************************************************)
Lower == {"a","b","c","d","e","f","g","h","i","j","k","l","m","n","o","p",
          "q","r","s","t","u","v","w","x","y","z"}
Upper == {"A","B","C","D","E","F","G","H","I","J","K","L","M","N","O","P",
          "Q","R","S","T","U","V","W","X","Y","Z"}
Digit == {"0","1","2","3","4","5","6","7","8","9"}
Letter == Lower \cup Upper
\* str.strip() with no argument removes these
Whitespace == {" ", "\t", "\n", "\r"}
\* the three character classes of the email pattern
LocalChars == Letter \cup Digit \cup {".", "_", "%", "+", "-"}
DomainChars == Letter \cup Digit \cup {".", "-"}
TldChars == Letter

RECURSIVE LStrip(_)
LStrip(s) ==
    IF s = <<>> THEN <<>>
    ELSE IF Head(s) \in Whitespace THEN LStrip(Tail(s)) ELSE s

RECURSIVE RStrip(_)
RStrip(s) ==
    IF s = <<>> THEN <<>>
    ELSE IF s[Len(s)] \in Whitespace THEN RStrip(SubSeq(s, 1, Len(s) - 1))
    ELSE s

Strip(s) == RStrip(LStrip(s))

AllIn(s, lo, hi, cls) == \A k \in lo..hi : s[k] \in cls

\* re.match(r"^[a-zA-Z0-9._%+-]+@[a-zA-Z0-9.-]+\.[a-zA-Z]{2,}$", s):
\* at is the position of "@", dot the position of the "." before the final
\* label, end the position "$" matches at: the end of the string, or just
\* before a newline that ends the string.
EmailPatternMatches(s) ==
    \E at \in {k \in 2..Len(s) : s[k] = "@"} :
      \E dot \in {k \in (at + 2)..Len(s) : s[k] = "."} :
        \E end \in {e \in {Len(s) - 1, Len(s)} :
                      e = Len(s) \/ s[Len(s)] = "\n"} :
          /\ AllIn(s, 1, at - 1, LocalChars)
          /\ AllIn(s, at + 1, dot - 1, DomainChars)
          /\ end - dot >= MinTldLen
          /\ AllIn(s, dot + 1, end, TldChars)

(**************************************************************************)
(* Value objects: __post_init__ returns the first error it raises.        *)
(**************************************************************************)
NameError(value) ==
    IF value = <<>> \/ Strip(value) = <<>> THEN "Name cannot be empty"
    ELSE IF Len(Strip(value)) < MinNameLen
         THEN "Name must have at least 2 characters"
    ELSE IF Len(value) > MaxNameLen THEN "Name cannot exceed 100 characters"
    ELSE NoError

AgeError(value) ==
    IF value < MinAge THEN "Age cannot be negative"
    ELSE IF value > MaxAge THEN "Age cannot exceed 150 years"
    ELSE NoError

\* adulthood starts after the eighteenth year
is_adult_over(value) == value > AdultAge

is_adult(value) == value >= AdultAge

EmailError(value) ==
    IF value = <<>> THEN "Email cannot be empty"
    ELSE IF ~EmailPatternMatches(value) THEN "Invalid email format"
    ELSE IF Len(value) > MaxEmailLen
         THEN "Email cannot exceed 254 characters"
    ELSE NoError

\* the frozen dataclasses hold the value they were given; value is <<>>
\* where the constructor raised and there is no object
\* Name(value) keeps the value with its surrounding whitespace removed
Name_trimmed(value) ==
    [raises |-> NameError(value),
     value |-> IF NameError(value) = NoError THEN Strip(value) ELSE <<>>]

Name(value) ==
    [raises |-> NameError(value),
     value |-> IF NameError(value) = NoError THEN value ELSE <<>>]

Age(value) ==
    [raises |-> AgeError(value),
     value |-> IF AgeError(value) = NoError THEN <<value>> ELSE <<>>]

Email(value) ==
    [raises |-> EmailError(value),
     value |-> IF EmailError(value) = NoError THEN value ELSE <<>>]

(**************************************************************************)
(* Sample inputs.                                                         *)
(**************************************************************************)
NameJo == <<"J","o">>
NameAl == <<"A","l">>
NameShort == <<"A">>
EmailAB == <<"a","@","b",".","c","o">>
EmailCD == <<"c","@","d",".","i","o">>
EmailBad == <<"b","a","d">>

\* n characters c
Repeat(c, n) == [k \in 1..n |-> c]

\* values for Name(): empty, whitespace only, one character with and
\* without whitespace around it, two characters with and without, and raw
\* lengths on both sides of the maximum
NameValueInputs ==
    {<<>>, <<" ", " ">>, <<"A">>, <<" ", "A", "\t">>, NameJo,
     <<" ", "J", "o", "\n">>, <<"J", " ">>,
     Repeat("x", MaxNameLen), Repeat("x", MaxNameLen + 1),
     <<" ">> \o Repeat("x", MaxNameLen - 1) \o <<" ">>,
     <<" ">> \o Repeat("x", MaxNameLen - 1)}

\* values for Age(): both sides of each limit and of adulthood
AgeValueInputs ==
    {MinAge - 1, MinAge, AdultAge - 1, AdultAge, AdultAge + 1, MaxAge,
     MaxAge + 1}

\* an address of n characters that ends in @b.co
LongEmail(n) == Repeat("x", n - 5) \o <<"@", "b", ".", "c", "o">>

\* values for Email(): empty, well formed, without "@", with two, with a
\* one-letter final label, without a local part, without a domain, with a
\* newline after the final label, with a space after it, and lengths on
\* both sides of the maximum
EmailValueInputs ==
    {<<>>, EmailAB, EmailBad, <<"a","@","@","b",".","c","o">>,
     <<"a","@","b",".","c">>, <<"@","b",".","c","o">>,
     <<"a","@",".","c","o">>, EmailAB \o <<"\n">>, EmailAB \o <<" ">>,
     <<"a","@","b",".",".","c","o">>,
     LongEmail(MaxEmailLen), LongEmail(MaxEmailLen + 1)}

NameInputs == {NameJo, NameAl, NameShort}
AgeInputs == {17, 30, 151}
EmailInputs == {EmailAB, EmailCD, EmailBad}
Properties(name, age, email) == [name |-> name, age |-> age, email |-> email]
\* two valid property sets and one invalid in each field (the first invalid
\* in its name and in its email)
PropertiesInputs ==
    {Properties(NameJo, 30, EmailAB), Properties(NameAl, 17, EmailCD),
     Properties(NameShort, 30, EmailBad), Properties(NameJo, 151, EmailAB),
     Properties(NameJo, 30, EmailBad)}

(**************************************************************************)
(* Domain events.  occurred_at is datetime.now() read off a logical clock *)
(* that advances with every event created, so it also tells two event     *)
(* instances apart.                                                       *)
(**************************************************************************)
UserCreatedType == "UserCreated"
UserEmailChangedType == "UserEmailChanged"
DomainEventType == "DomainEvent"
EventTypes == {DomainEventType, UserCreatedType, UserEmailChangedType}

UserCreated_create(aggregate_id, name, email, age, now) ==
    [type |-> UserCreatedType, aggregate_id |-> aggregate_id,
     occurred_at |-> now, name |-> name, email |-> email, age |-> age]

UserEmailChanged_create(aggregate_id, old_email, new_email, now) ==
    [type |-> UserEmailChangedType, aggregate_id |-> aggregate_id,
     occurred_at |-> now, old_email |-> old_email, new_email |-> new_email]

(**************************************************************************)
(* Entity and User.  A User object is a record of its dataclass fields in *)
(* declaration order: id, _domain_events, name, age, email.               *)
(**************************************************************************)
add_domain_event(user, event) ==
    [user EXCEPT !.events = Append(@, event)]

clear_domain_events(user) == [user EXCEPT !.events = <<>>]

\* the list the property hands out: shared says whether it is the list
\* object _domain_events itself, items what it holds
\* the property returns self._domain_events
domain_events_buffer(user) == [shared |-> TRUE, items |-> user.events]

\* return self._domain_events.copy()
domain_events(user) == [shared |-> FALSE, items |-> user.events]

\* the email is validated before the name and the age
PropertiesError_emailFirst(properties) ==
    IF EmailError(properties.email) # NoError
    THEN EmailError(properties.email)
    ELSE IF NameError(properties.name) # NoError
    THEN NameError(properties.name)
    ELSE AgeError(properties.age)

\* the error User.create / User.restore raise: cls(name=Name(..),
\* age=Age(..), email=Email(..)) evaluates its arguments left to right
PropertiesError(properties) ==
    IF NameError(properties.name) # NoError THEN NameError(properties.name)
    ELSE IF AgeError(properties.age) # NoError THEN AgeError(properties.age)
    ELSE EmailError(properties.email)

\* restore trusts what storage holds and validates nothing
RestoreError_unvalidated(properties) == NoError

\* the error User.restore raises: the same three constructor calls, in the
\* same order
RestoreError(properties) ==
    IF NameError(properties.name) # NoError THEN NameError(properties.name)
    ELSE IF AgeError(properties.age) # NoError THEN AgeError(properties.age)
    ELSE EmailError(properties.email)

\* the identifier is a class-level default, evaluated once and shared
NewUser_sharedDefaultId(properties, newId) ==
    [id |-> 1, events |-> <<>>, name |-> properties.name,
     age |-> properties.age, email |-> properties.email]

\* cls(...): the id comes from the default factory ObjectId()
NewUser(properties, newId) ==
    [id |-> newId, events |-> <<>>, name |-> properties.name,
     age |-> properties.age, email |-> properties.email]

\* create buffers the event under the identifier of another aggregate
User_create_foreignAggregate(properties, newId, now) ==
    add_domain_event(NewUser(properties, newId),
        UserCreated_create(newId + 1, properties.name, properties.email,
                           properties.age, now))

User_create(properties, newId, now) ==
    add_domain_event(NewUser(properties, newId),
        UserCreated_create(newId, properties.name, properties.email,
                           properties.age, now))

\* restore goes through create and keeps its UserCreated event
User_restore_viaCreate(user_id, properties, newId) ==
    [User_create(properties, newId, 0) EXCEPT !.id = user_id]

User_restore(user_id, properties, newId) ==
    [NewUser(properties, newId) EXCEPT !.id = user_id]

\* the old address is read after the new one was assigned
User_change_email_readsOldAfter(user, new_email, now) ==
    add_domain_event([user EXCEPT !.email = new_email],
        UserEmailChanged_create(user.id, new_email, new_email, now))

User_change_email(user, new_email, now) ==
    add_domain_event([user EXCEPT !.email = new_email],
        UserEmailChanged_create(user.id, user.email, new_email, now))

\* the new address is assigned before it is validated
User_change_email_assignsFirst(user, new_email) ==
    [user EXCEPT !.email = new_email]

\* change_email when Email(new_email) raises: the error leaves the method
\* before self.email is assigned and before add_domain_event
User_change_email_raised(user, new_email) == user

User_is_adult(user) == is_adult(user.age)

\* Entity.__eq__ and Entity.__hash__: by identifier
Entity_eq(a, b) == a.id = b.id
Entity_hash(a) == [raises |-> NoError, value |-> a.id]

\* @dataclass(unsafe_hash=True) on User adds a field-wise __eq__ and a
\* __hash__ over the tuple of all fields to the class, which take the place
\* of the inherited Entity methods.  hash() of that tuple hashes every
\* field, the _domain_events list among them, and list.__hash__ is None.
TypeError == "TypeError"
User_eq(a, b) ==
    <<a.id, a.events, a.name, a.age, a.email>>
        = <<b.id, b.events, b.name, b.age, b.email>>
Hashable(kind) == kind # "list"
User_hash(a) ==
    IF \A kind \in {"ObjectId", "list", "Name", "Age", "Email"} :
          Hashable(kind)
    THEN [raises |-> NoError,
          value |-> <<a.id, a.events, a.name, a.age, a.email>>]
    ELSE [raises |-> TypeError, value |-> <<>>]

(**************************************************************************)
(* EventDispatcher.  _handlers is a dict: a function whose domain is the  *)
(* set of event types subscribed to so far.                               *)
(**************************************************************************)
EmptyDict == [k \in {} |-> <<>>]

\* subscribe skips a handler that is already in the list
subscribe_dedup(hs, event_type, handler) ==
    LET base == IF event_type \in DOMAIN hs THEN hs
                ELSE hs @@ (event_type :> <<>>)
    IN IF \E k \in 1..Len(base[event_type]) : base[event_type][k] = handler
       THEN base
       ELSE [base EXCEPT ![event_type] = Append(@, handler)]

subscribe(hs, event_type, handler) ==
    LET base == IF event_type \in DOMAIN hs THEN hs
                ELSE hs @@ (event_type :> <<>>)
    IN [base EXCEPT ![event_type] = Append(@, handler)]

\* handlers subscribed under a base type of the event are included
HandlersOf_isinstance(hs, event_type) ==
    (IF DomainEventType \in DOMAIN hs /\ event_type # DomainEventType
     THEN hs[DomainEventType] ELSE <<>>)
    \o (IF event_type \in DOMAIN hs THEN hs[event_type] ELSE <<>>)

\* self._handlers.get(event_type, [])
HandlersOf(hs, event_type) ==
    IF event_type \in DOMAIN hs THEN hs[event_type] ELSE <<>>

get_handler_count(hs, event_type) == Len(HandlersOf(hs, event_type))

\* the calls handler.handle(event) the two loops of dispatch make when no
\* handler raises: pos is the place of the event in the list, sub the place
\* of the handler in the list of the event's type
HandleCalls(pos, event, hl) ==
    [k \in 1..Len(hl) |->
       [pos |-> pos, event |-> event, handler |-> hl[k], sub |-> k]]

RECURSIVE DispatchCalls(_, _, _)
DispatchCalls(hs, events, pos) ==
    IF pos > Len(events) THEN <<>>
    ELSE HandleCalls(pos, events[pos], HandlersOf(hs, events[pos].type))
           \o DispatchCalls(hs, events, pos + 1)

\* an error raised by a handler is swallowed and the loops go on
dispatch_swallow(hs, events, failAt) ==
    [calls |-> DispatchCalls(hs, events, 1), raised |-> failAt]

\* dispatch(events) when call number failAt raises (0: no call raises): the
\* error leaves both loops at once
dispatch(hs, events, failAt) ==
    LET all == DispatchCalls(hs, events, 1)
    IN [calls |-> IF failAt = 0 THEN all ELSE SubSeq(all, 1, failAt),
        raised |-> failAt]

\* the call numbers at which dispatch(events) can be made to raise
FailPoints(hs, events) == 0..Len(DispatchCalls(hs, events, 1))

clear_handlers(hs) == EmptyDict

(**************************************************************************)
(* State.                                                                 *)
(**************************************************************************)
VARIABLES
    nextId,     \* the next identifier ObjectId() hands out
    clock,      \* the logical clock datetime.now() reads
    pool,       \* entity specification: the User objects built so far
    last,       \* entity specification: the last call and its outcome
    listed,     \* buffer specification: the list domain_events returned
    handlers,   \* EventDispatcher._handlers: event type -> handler list
    batch,      \* the last list given to dispatch since the registry changed
    log,        \* the handler calls that dispatch made
    raised,     \* the number of the call that raised in it, 0 if none
    count,      \* the last get_handler_count since the registry changed
    subscribed, \* history: subscribe calls per type and handler since the
                \* last clear_handlers
    repo,       \* the repository class the use cases were built with
    docs,       \* MongoUserRepository: the UserDocument collection, by _id
    users,      \* InMemoryUserRepository.users
    proc,       \* per request: the use case it runs and where it stands
    nexec,      \* use-case executions started
    history     \* history: per event instance, the dispatch lists it was
                \* in and the handle calls it was given to

vars ==
    <<nextId, clock, pool, last, listed, handlers, batch, log, raised, count,
      subscribed, repo, docs, users, proc, nexec, history>>
dispatcherVars == <<handlers, batch, log, raised, count, subscribed>>
entityVars == <<pool, last, listed>>
appVars == <<repo, docs, users, proc, nexec, history>>

Procs == {"r1", "r2"}
\* message: the text of the ValueError raised; savedAt: the place of the
\* execution's save() among the saves made so far, 0 before it
Idle ==
    [n |-> 0, pc |-> "idle", uc |-> "none", cmd |-> <<>>, existing |-> <<>>,
     user |-> <<>>, outcome |-> "none", failedAt |-> "none",
     message |-> NoError, writeReturned |-> FALSE, invoked |-> <<>>,
     bufBefore |-> <<>>, savedAt |-> 0]
\* overlapped: an execution started while another was under way;
\* succeeded: identifier -> fields, as the use cases that returned without
\* an error leave them (create and update put, delete removes);
\* committed: the same, a CreateUser counting from the moment its
\* repository write returned
NoHistory ==
    [passed |-> <<>>, handled |-> <<>>, overlapped |-> FALSE,
     succeeded |-> EmptyDict, committed |-> EmptyDict]
\* the entity and dispatcher specifications have no repository or request
NoApp ==
    /\ repo = "none"
    /\ docs = EmptyDict
    /\ users = EmptyDict
    /\ proc = [p \in Procs |-> Idle]
    /\ nexec = 0
    /\ history = NoHistory

HandlerInputs == {"H1", "H2"}
AppHandlers == {"notification", "audit", "analytics"}
NoCount == [event_type |-> None, result |-> 0]
NoSubscriptions ==
    [t \in EventTypes |-> [h \in HandlerInputs \cup AppHandlers |-> 0]]

(**************************************************************************)
(* Entity specification: calls on User objects held in a pool.            *)
(**************************************************************************)
\* before: the object the call was made on, as it was before the call
NoCall ==
    [op |-> "none", idx |-> 0, user_id |-> 0, arg |-> None, before |-> None,
     error |-> NoError, result |-> None]

\* owner: the place in the pool of the object the list came from, 0 while
\* no list has been asked for
NoList == [owner |-> 0, shared |-> FALSE, items |-> <<>>]

EntityInit ==
    /\ nextId = 1
    /\ clock = 1
    /\ pool = <<>>
    /\ last = NoCall
    /\ listed = NoList
    /\ handlers = EmptyDict
    /\ batch = <<>>
    /\ log = <<>>
    /\ raised = 0
    /\ count = NoCount
    /\ subscribed = NoSubscriptions
    /\ NoApp

\* user = User.create(properties)
EntityCreate ==
    \E properties \in PropertiesInputs :
      IF PropertiesError(properties) # NoError
      THEN /\ last' = [NoCall EXCEPT !.op = "create", !.arg = properties,
                                      !.error = PropertiesError(properties)]
           /\ UNCHANGED <<nextId, clock, pool, listed, dispatcherVars,
                       appVars>>
      ELSE /\ Len(pool) < MaxPool
           /\ nextId <= MaxIds
           /\ clock <= MaxEvents
           /\ pool' = Append(pool, [via |-> "create",
                        user |-> User_create(properties, nextId, clock)])
           /\ nextId' = nextId + 1
           /\ clock' = clock + 1
           /\ last' = [NoCall EXCEPT !.op = "create", !.idx = Len(pool) + 1,
                                      !.arg = properties]
           /\ UNCHANGED <<listed, dispatcherVars,
                       appVars>>

\* user = User.restore(user_id, properties), user_id read from storage.
\* cls(...) draws an ObjectId that restore then overwrites.
EntityRestore ==
    \E user_id \in 1..(nextId - 1) : \E properties \in PropertiesInputs :
      IF RestoreError(properties) # NoError
      THEN /\ last' = [NoCall EXCEPT !.op = "restore", !.user_id = user_id,
                                      !.arg = properties,
                                      !.error = RestoreError(properties)]
           /\ UNCHANGED <<nextId, clock, pool, listed, dispatcherVars,
                       appVars>>
      ELSE /\ Len(pool) < MaxPool
           /\ pool' = Append(pool, [via |-> "restore",
                        user |-> User_restore(user_id, properties, nextId)])
           /\ last' = [NoCall EXCEPT !.op = "restore", !.idx = Len(pool) + 1,
                                      !.user_id = user_id, !.arg = properties]
           /\ UNCHANGED <<nextId, clock, listed, dispatcherVars,
                       appVars>>

\* pool[i].change_email(new_email)
EntityChangeEmail ==
    \E i \in 1..Len(pool) : \E new_email \in EmailInputs :
      IF EmailError(new_email) # NoError
      THEN /\ last' = [NoCall EXCEPT !.op = "change_email", !.idx = i,
                                      !.arg = new_email,
                                      !.before = pool[i].user,
                                      !.error = EmailError(new_email)]
           /\ pool' = [pool EXCEPT ![i].user =
                         User_change_email_raised(@, new_email)]
           /\ UNCHANGED <<nextId, clock, listed, dispatcherVars, appVars>>
      ELSE /\ clock <= MaxEvents
           /\ pool' = [pool EXCEPT ![i].user =
                         User_change_email(@, new_email, clock)]
           /\ clock' = clock + 1
           /\ last' = [NoCall EXCEPT !.op = "change_email", !.idx = i,
                                      !.arg = new_email,
                                      !.before = pool[i].user]
           /\ UNCHANGED <<nextId, listed, dispatcherVars,
                       appVars>>

\* pool[i].clear_domain_events()
EntityClear ==
    \E i \in 1..Len(pool) :
      /\ pool' = [pool EXCEPT ![i].user = clear_domain_events(@)]
      /\ last' = [NoCall EXCEPT !.op = "clear_domain_events", !.idx = i,
                                 !.before = pool[i].user]
      /\ UNCHANGED <<nextId, clock, listed, dispatcherVars,
                       appVars>>

EntityNext ==
    \/ EntityCreate
    \/ EntityRestore
    \/ EntityChangeEmail
    \/ EntityClear

SpecEntity == EntityInit /\ [][EntityNext]_vars

(**************************************************************************)
(* Properties of the entity specification.                                *)
(**************************************************************************)
PoolUsers == {pool[i].user : i \in 1..Len(pool)}

\* C3: two Users (all of the one concrete type User) are equal exactly
\* when they have the same identifier, whatever their other fields and
\* buffers are.
C3_EqualIffSameId ==
    \A a, b \in PoolUsers : User_eq(a, b) <=> (a.id = b.id)

\* C4: hash() of every User succeeds and two Users with the same
\* identifier have the same hash.
C4_HashById ==
    /\ \A a \in PoolUsers : User_hash(a).raises = NoError
    /\ \A a, b \in PoolUsers :
          a.id = b.id => User_hash(a).value = User_hash(b).value

\* C9: right after a successful User.create(properties) the new User's
\* buffer holds exactly one event, a UserCreated carrying the User's id and
\* the raw name, age and email supplied; right after clear_domain_events()
\* the buffer is empty.
C9_CreateBuffersOneUserCreated ==
    /\ (last.op = "create" /\ last.error = NoError) =>
          LET u == pool[last.idx].user
          IN /\ Len(u.events) = 1
             /\ u.events[1].type = UserCreatedType
             /\ u.events[1].aggregate_id = u.id
             /\ u.events[1].name = last.arg.name
             /\ u.events[1].age = last.arg.age
             /\ u.events[1].email = last.arg.email
    /\ last.op = "clear_domain_events" =>
          pool[last.idx].user.events = <<>>

\* a created User whose one-event buffer has just been cleared
C9_Witness ==
    /\ last.op = "clear_domain_events"
    /\ pool[last.idx].via = "create"
    /\ Len(last.before.events) = 1
    /\ last.before.events[1].type = UserCreatedType

\* C10: two Users produced by separate calls of User.create have distinct
\* identifiers and compare unequal.
C10_CreatedUsersDistinct ==
    \A i, j \in 1..Len(pool) :
      (i # j /\ pool[i].via = "create" /\ pool[j].via = "create") =>
        /\ pool[i].user.id # pool[j].user.id
        /\ ~User_eq(pool[i].user, pool[j].user)

\* two Users created from identical properties
C10_Witness ==
    \E i, j \in 1..Len(pool) :
      /\ i # j /\ pool[i].via = "create" /\ pool[j].via = "create"
      /\ pool[i].user.name = pool[j].user.name
      /\ pool[i].user.age = pool[j].user.age
      /\ pool[i].user.email = pool[j].user.email

\* C11: User.restore(user_id, properties) raises what User.create raises
\* for the same properties; when it returns, the User has the identifier
\* supplied, the name, age and email supplied and an empty event buffer.
C11_RestoreValidatesKeepsIdNoEvent ==
    last.op = "restore" =>
      /\ last.error = PropertiesError(last.arg)
      /\ last.error = NoError =>
            LET u == pool[last.idx].user
            IN /\ u.id = last.user_id
               /\ u.events = <<>>
               /\ u.name = last.arg.name
               /\ u.age = last.arg.age
               /\ u.email = last.arg.email

\* a User restored under the identifier of a created User whose
\* UserCreated event is still buffered
C11_Witness ==
    /\ last.op = "restore"
    /\ last.error = NoError
    /\ \E i \in 1..Len(pool) :
          /\ pool[i].via = "create"
          /\ pool[i].user.id = last.user_id
          /\ Len(pool[i].user.events) = 1

\* C12: change_email(new_email) with a valid new_email sets the email to
\* new_email and appends one UserEmailChanged event after the events
\* already buffered, carrying the User's id, the previous email as
\* old_email and new_email as new_email; id, name and age do not change.
C12_ChangeEmailAppendsOneEvent ==
    (last.op = "change_email" /\ last.error = NoError) =>
      LET u == pool[last.idx].user
          b == last.before
          n == Len(b.events)
      IN /\ u.email = last.arg
         /\ u.id = b.id /\ u.name = b.name /\ u.age = b.age
         /\ Len(u.events) = n + 1
         /\ SubSeq(u.events, 1, n) = b.events
         /\ u.events[n + 1].type = UserEmailChangedType
         /\ u.events[n + 1].aggregate_id = b.id
         /\ u.events[n + 1].old_email = b.email
         /\ u.events[n + 1].new_email = last.arg

\* the email of a created User, its UserCreated event still buffered,
\* changed to a different address
C12_Witness ==
    /\ last.op = "change_email"
    /\ last.error = NoError
    /\ Len(last.before.events) = 1
    /\ last.before.events[1].type = UserCreatedType
    /\ last.before.email # last.arg

\* C29: a change_email whose address is not a valid Email raises the error
\* of the Email and leaves the User as it was: identifier, name, age,
\* email and buffered events.
C29_FailedChangeEmailKeepsUser ==
    (last.op = "change_email" /\ last.error # NoError) =>
      /\ last.error = EmailError(last.arg)
      /\ pool[last.idx].user = last.before

\* a change_email to a malformed address on a User that was created and
\* still holds its UserCreated event
C29_Witness ==
    /\ last.op = "change_email"
    /\ last.error = "Invalid email format"
    /\ last.arg = EmailBad
    /\ Len(last.before.events) = 1
    /\ pool[last.idx].user.events = last.before.events
    /\ pool[last.idx].user.email # last.arg

(**************************************************************************)
(* Value-object specification: the constructors applied to a name and an  *)
(* age drawn at the start, alone and inside User.create.                  *)
(**************************************************************************)
ValueInit ==
    /\ nextId = 1
    /\ clock = 1
    /\ pool = <<>>
    /\ last \in {[NoCall EXCEPT !.arg = [name |-> n, age |-> a, email |-> e]] :
                   n \in NameValueInputs, a \in AgeValueInputs,
                   e \in EmailValueInputs}
    /\ listed = NoList
    /\ handlers = EmptyDict
    /\ batch = <<>>
    /\ log = <<>>
    /\ raised = 0
    /\ count = NoCount
    /\ subscribed = NoSubscriptions
    /\ NoApp

\* Name(name)
ValueName ==
    /\ last' = [last EXCEPT !.op = "Name", !.idx = 0,
                            !.error = Name(last.arg.name).raises,
                            !.result = Name(last.arg.name).value]
    /\ UNCHANGED <<nextId, clock, pool, listed, dispatcherVars,
                       appVars>>

\* Age(age), then is_adult() of the Age constructed
ValueAge ==
    /\ last' = [last EXCEPT !.op = "Age", !.idx = 0,
                            !.error = Age(last.arg.age).raises,
                            !.result =
                               IF Age(last.arg.age).raises # NoError THEN None
                               ELSE is_adult(Age(last.arg.age).value[1])]
    /\ UNCHANGED <<nextId, clock, pool, listed, dispatcherVars,
                       appVars>>

\* Email(email)
ValueEmail ==
    /\ last' = [last EXCEPT !.op = "Email", !.idx = 0,
                            !.error = Email(last.arg.email).raises,
                            !.result = Email(last.arg.email).value]
    /\ UNCHANGED <<nextId, clock, pool, listed, dispatcherVars,
                       appVars>>

\* User.create({name, age, email}) with a valid email
ValueCreate ==
    LET properties == Properties(last.arg.name, last.arg.age, EmailAB)
    IN IF PropertiesError(properties) # NoError
       THEN /\ last' = [last EXCEPT !.op = "create", !.idx = 0,
                                    !.error = PropertiesError(properties),
                                    !.result = None]
            /\ UNCHANGED <<nextId, clock, pool, listed, dispatcherVars,
                       appVars>>
       ELSE /\ Len(pool) < MaxPool
            /\ nextId <= MaxIds
            /\ clock <= MaxEvents
            /\ pool' = Append(pool, [via |-> "create",
                         user |-> User_create(properties, nextId, clock)])
            /\ nextId' = nextId + 1
            /\ clock' = clock + 1
            /\ last' = [last EXCEPT !.op = "create", !.idx = Len(pool) + 1,
                                    !.error = NoError, !.result = None]
            /\ UNCHANGED <<listed, dispatcherVars,
                       appVars>>

ValueNext ==
    \/ ValueName
    \/ ValueAge
    \/ ValueEmail
    \/ ValueCreate

SpecValue == ValueInit /\ [][ValueNext]_vars

(**************************************************************************)
(* Properties of the value-object specification.                          *)
(**************************************************************************)
WhitespaceOnly(n) == \A k \in 1..Len(n) : n[k] \in Whitespace

\* C19: Name(n) raises exactly when n is empty or whitespace only, or n
\* without its surrounding whitespace has fewer than 2 characters, or n
\* itself has more than 100; otherwise the Name holds n as given.
C19_NameFailsExactly ==
    last.op = "Name" =>
      /\ (last.error # NoError) <=>
            \/ last.arg.name = <<>>
            \/ WhitespaceOnly(last.arg.name)
            \/ Len(Strip(last.arg.name)) < 2
            \/ Len(last.arg.name) > 100
      /\ last.error = NoError => last.result = last.arg.name

\* a name accepted with whitespace around it and held untrimmed
C19_Witness ==
    /\ last.op = "Name"
    /\ last.error = NoError
    /\ Strip(last.arg.name) # last.arg.name
    /\ last.result = last.arg.name

\* C20: Age(a) raises exactly when a < 0 or a > 150; is_adult() of an Age
\* and of a User is true exactly when the age is at least 18.
C20_AgeRangeAndAdult ==
    /\ last.op = "Age" =>
          /\ (last.error # NoError) <=>
                (last.arg.age < 0 \/ last.arg.age > 150)
          /\ last.error = NoError => (last.result = (last.arg.age >= 18))
    /\ \A u \in PoolUsers : User_is_adult(u) = (u.age >= 18)

\* Age(18) is an adult, and so is a User created with that age
C20_Witness ==
    /\ last.op = "Age"
    /\ last.arg.age = 18
    /\ last.result = TRUE
    /\ \E u \in PoolUsers : u.age = 18 /\ User_is_adult(u)

LocalAtDomainTld(e) ==
    \E at \in {k \in 2..Len(e) : e[k] = "@"} :
      \E dot \in {k \in (at + 2)..Len(e) : e[k] = "."} :
        /\ AllIn(e, 1, at - 1, LocalChars)
        /\ AllIn(e, at + 1, dot - 1, DomainChars)
        /\ Len(e) - dot >= 2
        /\ AllIn(e, dot + 1, Len(e), Letter)

\* C21: Email(e) raises exactly when e is empty, is longer than 254
\* characters, or does not read local@domain.tld.
C21_EmailFailsExactly ==
    last.op = "Email" =>
      ((last.error # NoError) <=>
          \/ last.arg.email = <<>>
          \/ Len(last.arg.email) > 254
          \/ ~LocalAtDomainTld(last.arg.email))

(**************************************************************************)
(* Buffer specification: a caller holds the list that domain_events       *)
(* returned while the entity goes on adding and clearing events, and      *)
(* changes that list itself.                                              *)
(**************************************************************************)
BufferInit ==
    /\ nextId = 1
    /\ clock = 1
    /\ pool = <<>>
    /\ last = NoCall
    /\ listed = NoList
    /\ handlers = EmptyDict
    /\ batch = <<>>
    /\ log = <<>>
    /\ raised = 0
    /\ count = NoCount
    /\ subscribed = NoSubscriptions
    /\ NoApp

\* the list held is the buffer of pool[i] itself
Held(i) == listed.owner = i /\ listed.shared

\* what the list held shows once the buffer of pool[i] has become events
Seen(i, events) ==
    IF Held(i) THEN [listed EXCEPT !.items = events] ELSE listed

\* what the pool holds once the caller has made the list held read items
Kept(items) ==
    IF listed.shared THEN [pool EXCEPT ![listed.owner].user.events = items]
    ELSE pool

\* an event the caller puts into the list it holds
CallerEvent == UserCreated_create(0, NameAl, EmailCD, 17, 0)

\* user = User.create(properties)
BufferCreate ==
    /\ Len(pool) < MaxPool
    /\ nextId <= MaxIds
    /\ clock <= MaxEvents
    /\ pool' = Append(pool, [via |-> "create",
                 user |-> User_create(Properties(NameJo, 30, EmailAB),
                                      nextId, clock)])
    /\ nextId' = nextId + 1
    /\ clock' = clock + 1
    /\ last' = [NoCall EXCEPT !.op = "create", !.idx = Len(pool) + 1]
    /\ UNCHANGED <<listed, dispatcherVars, appVars>>

\* pool[i].change_email(new_email), which adds an event
BufferChangeEmail ==
    \E i \in 1..Len(pool) : \E new_email \in {EmailAB, EmailCD} :
      /\ clock <= MaxEvents
      /\ pool' = [pool EXCEPT ![i].user =
                    User_change_email(@, new_email, clock)]
      /\ clock' = clock + 1
      /\ listed' = Seen(i, pool'[i].user.events)
      /\ last' = [NoCall EXCEPT !.op = "change_email", !.idx = i,
                                 !.arg = new_email, !.before = pool[i].user]
      /\ UNCHANGED <<nextId, dispatcherVars, appVars>>

\* pool[i].clear_domain_events()
BufferClear ==
    \E i \in 1..Len(pool) :
      /\ pool' = [pool EXCEPT ![i].user = clear_domain_events(@)]
      /\ listed' = Seen(i, pool'[i].user.events)
      /\ last' = [NoCall EXCEPT !.op = "clear_domain_events", !.idx = i,
                                 !.before = pool[i].user]
      /\ UNCHANGED <<nextId, clock, dispatcherVars, appVars>>

\* events = pool[i].domain_events
BufferDomainEvents ==
    \E i \in 1..Len(pool) :
      /\ listed' = [owner |-> i,
                    shared |-> domain_events(pool[i].user).shared,
                    items |-> domain_events(pool[i].user).items]
      /\ last' = [NoCall EXCEPT !.op = "domain_events", !.idx = i,
                                 !.before = pool[i].user]
      /\ UNCHANGED <<nextId, clock, pool, dispatcherVars, appVars>>

\* events.append(event)
BufferListAppend ==
    /\ listed.owner # 0
    /\ Len(listed.items) < MaxEvents
    /\ listed' = [listed EXCEPT !.items = Append(@, CallerEvent)]
    /\ pool' = Kept(listed'.items)
    /\ last' = [NoCall EXCEPT !.op = "list_append", !.idx = listed.owner,
                               !.before = pool[listed.owner].user]
    /\ UNCHANGED <<nextId, clock, dispatcherVars, appVars>>

\* events.pop()
BufferListPop ==
    /\ listed.owner # 0
    /\ listed.items # <<>>
    /\ listed' = [listed EXCEPT !.items = SubSeq(@, 1, Len(@) - 1)]
    /\ pool' = Kept(listed'.items)
    /\ last' = [NoCall EXCEPT !.op = "list_pop", !.idx = listed.owner,
                               !.before = pool[listed.owner].user]
    /\ UNCHANGED <<nextId, clock, dispatcherVars, appVars>>

\* events.clear()
BufferListClear ==
    /\ listed.owner # 0
    /\ listed.items # <<>>
    /\ listed' = [listed EXCEPT !.items = <<>>]
    /\ pool' = Kept(listed'.items)
    /\ last' = [NoCall EXCEPT !.op = "list_clear", !.idx = listed.owner,
                               !.before = pool[listed.owner].user]
    /\ UNCHANGED <<nextId, clock, dispatcherVars, appVars>>

BufferNext ==
    \/ BufferCreate
    \/ BufferChangeEmail
    \/ BufferClear
    \/ BufferDomainEvents
    \/ BufferListAppend
    \/ BufferListPop
    \/ BufferListClear

SpecBuffer == BufferInit /\ [][BufferNext]_vars

(**************************************************************************)
(* Properties of the buffer specification.                                *)
(**************************************************************************)
\* C25: domain_events returns the events of the buffer in the order they
\* were added, as a list of its own: changing that list leaves the buffer
\* as it was, and adding to or clearing the buffer afterwards leaves the
\* list as it was.
C25_DomainEventsIsSnapshot ==
    [][/\ last'.op = "domain_events" =>
            /\ listed'.items = pool[last'.idx].user.events
            /\ pool' = pool
       /\ last'.op \in {"list_append", "list_pop", "list_clear"} =>
            /\ listed'.items # listed.items
            /\ pool' = pool
       /\ last'.op \in {"create", "change_email", "clear_domain_events"} =>
            listed'.items = listed.items
      ]_vars

\* the list was read when the buffer held the UserCreated event alone;
\* since then change_email has added an event to the buffer and the caller
\* one to the list, and each holds only its own
C25_Witness ==
    /\ last.op = "list_append"
    /\ listed.owner # 0
    /\ Len(listed.items) = 2
    /\ Len(pool[listed.owner].user.events) = 2
    /\ listed.items[1] = pool[listed.owner].user.events[1]
    /\ listed.items[2] = CallerEvent
    /\ pool[listed.owner].user.events[2].type = UserEmailChangedType

(**************************************************************************)
(* Dispatcher specification: calls on one EventDispatcher.                *)
(**************************************************************************)
EventInputs ==
    {UserCreated_create(1, NameJo, EmailAB, 30, 1),
     UserEmailChanged_create(1, EmailAB, EmailCD, 2)}

BatchInputs ==
    UNION {[1..n -> EventInputs] : n \in 0..MaxBatch}

Subscriptions ==
    LET total[ts \in SUBSET EventTypes] ==
          IF ts = {} THEN 0
          ELSE LET t == CHOOSE x \in ts : TRUE
               IN get_handler_count(handlers, t) + total[ts \ {t}]
    IN total[EventTypes]

DispatcherInit ==
    /\ nextId = 1
    /\ clock = 1
    /\ pool = <<>>
    /\ last = NoCall
    /\ listed = NoList
    /\ handlers = EmptyDict
    /\ batch = <<>>
    /\ log = <<>>
    /\ raised = 0
    /\ count = NoCount
    /\ subscribed = NoSubscriptions
    /\ NoApp

\* dispatcher.subscribe(event_type, handler)
DispatcherSubscribe ==
    \E event_type \in EventTypes : \E handler \in HandlerInputs :
      /\ Subscriptions < MaxSubs
      /\ handlers' = subscribe(handlers, event_type, handler)
      /\ subscribed' = [subscribed EXCEPT ![event_type][handler] = @ + 1]
      /\ batch' = <<>> /\ log' = <<>> /\ raised' = 0 /\ count' = NoCount
      /\ UNCHANGED <<nextId, clock, entityVars, appVars>>

\* dispatcher.dispatch(events); some handler call may raise
DispatcherDispatch ==
    \E events \in BatchInputs : \E failAt \in FailPoints(handlers, events) :
      /\ batch' = events
      /\ log' = dispatch(handlers, events, failAt).calls
      /\ raised' = dispatch(handlers, events, failAt).raised
      /\ UNCHANGED <<nextId, clock, entityVars, appVars, handlers, count,
                     subscribed>>

\* dispatcher.dispatch_single(event) is dispatch([event])
DispatcherDispatchSingle ==
    \E event \in EventInputs : \E failAt \in FailPoints(handlers, <<event>>) :
      /\ batch' = <<event>>
      /\ log' = dispatch(handlers, <<event>>, failAt).calls
      /\ raised' = dispatch(handlers, <<event>>, failAt).raised
      /\ UNCHANGED <<nextId, clock, entityVars, appVars, handlers, count,
                     subscribed>>

\* dispatcher.clear_handlers()
DispatcherClearHandlers ==
    /\ handlers' = clear_handlers(handlers)
    /\ subscribed' = NoSubscriptions
    /\ batch' = <<>> /\ log' = <<>> /\ raised' = 0 /\ count' = NoCount
    /\ UNCHANGED <<nextId, clock, entityVars, appVars>>

\* dispatcher.get_handler_count(event_type)
DispatcherGetHandlerCount ==
    \E event_type \in EventTypes :
      /\ count' = [event_type |-> event_type,
                   result |-> get_handler_count(handlers, event_type)]
      /\ UNCHANGED <<nextId, clock, entityVars, appVars, handlers, batch, log,
                     raised, subscribed>>

DispatcherNext ==
    \/ DispatcherSubscribe
    \/ DispatcherDispatch
    \/ DispatcherDispatchSingle
    \/ DispatcherClearHandlers
    \/ DispatcherGetHandlerCount

SpecDispatcher == DispatcherInit /\ [][DispatcherNext]_vars

(**************************************************************************)
(* Properties of the dispatcher specification.                            *)
(**************************************************************************)
\* the handler list registered under exactly this type
Registered(t) == IF t \in DOMAIN handlers THEN handlers[t] ELSE <<>>

\* <<i, k>>: event i of the batch meets subscription k of its exact type
Meetings ==
    UNION {{<<i, k>> : k \in 1..Len(Registered(batch[i].type))} :
             i \in 1..Len(batch)}

\* the place of a meeting in batch order, then subscription order
Rank(m) ==
    Cardinality({q \in Meetings :
                   q[1] < m[1] \/ (q[1] = m[1] /\ q[2] <= m[2])})

MeetingCall(m) ==
    [pos |-> m[1], event |-> batch[m[1]],
     handler |-> Registered(batch[m[1]].type)[m[2]], sub |-> m[2]]

\* C6: when a handler raises during dispatch(events), the raising call is
\* the last call made: every call before it in dispatch order was made and
\* no later handler of the same event or of a later event is called.
C6_RaiseAbortsDispatch ==
    raised # 0 =>
      /\ Len(log) = raised
      /\ raised <= Cardinality(Meetings)
      /\ \A m \in Meetings : Rank(m) <= raised => log[Rank(m)] = MeetingCall(m)

\* the second call raised while a later handler of the same event and a
\* later event were still to come
C6_Witness ==
    /\ raised = 2
    /\ Len(log) = 2
    /\ \E m \in Meetings : m[1] = log[2].pos /\ m[2] > log[2].sub
    /\ \E m \in Meetings : m[1] > log[2].pos

\* C7: dispatch(events) with no failing handler calls, for each event in
\* batch order, each handler subscribed under the event's exact type, in
\* subscription order, once per subscription, and nothing else.
C7_DispatchOrder ==
    raised = 0 =>
      /\ Len(log) = Cardinality(Meetings)
      /\ \A m \in Meetings : log[Rank(m)] = MeetingCall(m)

\* H1 then H2 subscribed to the type of the one event dispatched, and a
\* handler subscribed under the base type
C7_Witness ==
    /\ raised = 0
    /\ Len(batch) = 1
    /\ Registered(batch[1].type) = <<"H1", "H2">>
    /\ Len(Registered(DomainEventType)) = 1
    /\ Len(log) = 2
    /\ log[1].handler = "H1" /\ log[2].handler = "H2"

CallsOf(i, h) ==
    Cardinality({n \in 1..Len(log) : log[n].pos = i /\ log[n].handler = h})

\* C8: a handler subscribed k times to a type since the last
\* clear_handlers is counted k times by get_handler_count and called k
\* times for every event of that type in a dispatch that does not raise.
C8_NoDeduplication ==
    /\ count.event_type \in EventTypes =>
          count.result = subscribed[count.event_type]["H1"]
                           + subscribed[count.event_type]["H2"]
    /\ raised = 0 =>
          \A i \in 1..Len(batch) : \A h \in HandlerInputs :
            CallsOf(i, h) = subscribed[batch[i].type][h]

\* one handler subscribed twice to a type, counted, and one event of the
\* type dispatched
C8_Witness ==
    /\ raised = 0
    /\ Len(batch) = 1
    /\ subscribed[batch[1].type]["H1"] = 2
    /\ count.event_type = batch[1].type
    /\ count.result >= 2
    /\ CallsOf(1, "H1") = 2

(**************************************************************************)
(* Application specification: two requests run use cases on one           *)
(* repository and one configured dispatcher.  A use case is a coroutine:  *)
(* it gives way to the other request only where it awaits the database,   *)
(* so each action runs from one such await to the next.                   *)
(**************************************************************************)
RepositoryKinds == {"mongo", "memory"}

\* the methods a repository class declares with "async def".  The use cases
\* await the result of all four; awaiting the result of a plain "def"
\* raises TypeError.
Coroutine_allAsync(kind, method) == TRUE

Coroutine(kind, method) == kind = "mongo" \/ method = "create_user"

\* the audit handler is subscribed before the notification handler
ConfiguredHandlers_auditFirst ==
    LET h1 == subscribe(EmptyDict, UserCreatedType, "audit")
        h2 == subscribe(h1, UserCreatedType, "notification")
        h3 == subscribe(h2, UserCreatedType, "analytics")
        h4 == subscribe(h3, UserEmailChangedType, "audit")
        h5 == subscribe(h4, UserEmailChangedType, "notification")
    IN subscribe(h5, UserEmailChangedType, "analytics")

\* EventConfiguration._configure_user_events on a new EventDispatcher
ConfiguredHandlers ==
    LET h1 == subscribe(EmptyDict, UserCreatedType, "notification")
        h2 == subscribe(h1, UserCreatedType, "audit")
        h3 == subscribe(h2, UserCreatedType, "analytics")
        h4 == subscribe(h3, UserEmailChangedType, "notification")
        h5 == subscribe(h4, UserEmailChangedType, "audit")
    IN subscribe(h5, UserEmailChangedType, "analytics")

\* optional command fields: <<>> is None, <<v>> is the value v
Some(v) == <<v>>
OrElse(opt, default) == IF opt = <<>> THEN default ELSE opt[1]

Put(dict, key, value) == (key :> value) @@ dict
Pop(dict, key) == [k \in DOMAIN dict \ {key} |-> dict[k]]

\* the UserDocument create_user / update_user write for a User
DocumentOf(user) ==
    [name |-> user.name, age |-> user.age, email |-> user.email]

\* n numbers the executions in the order they start
Started(uc, cmd) == [Idle EXCEPT !.n = nexec + 1, !.uc = uc, !.cmd = cmd]

Raised(pr, error) ==
    [pr EXCEPT !.pc = "idle", !.outcome = error, !.failedAt = pr.pc]

\* self.event_dispatcher.dispatch(aggregate.domain_events);
\* aggregate.clear_domain_events(); return -- the aggregate is the local
\* named by field.  When a handler raises, the error leaves the use case
\* before clear_domain_events.
Dispatched(pr, field, aggregate, failAt) ==
    LET d == dispatch(handlers, aggregate.events, failAt)
    IN [pr EXCEPT !.pc = "idle",
                  !.invoked = d.calls,
                  !.outcome = IF d.raised # 0 THEN "HandlerError" ELSE "ok",
                  ![field] = IF d.raised # 0 THEN aggregate
                             ELSE clear_domain_events(aggregate)]

Recorded(aggregate, failAt) ==
    LET calls == dispatch(handlers, aggregate.events, failAt).calls
    IN [history EXCEPT
          !.passed = @ \o [k \in 1..Len(aggregate.events) |->
                             aggregate.events[k].occurred_at],
          !.handled = @ \o [k \in 1..Len(calls) |->
                              <<calls[k].event.occurred_at, calls[k].sub>>]]

\* an execution starts: is another one under way?
Called(h) ==
    [h EXCEPT !.overlapped = @ \/ \E q \in Procs : proc[q].pc # "idle"]

\* the execution whose record is pr has ended: what it leaves behind
Noted(h, pr) ==
    LET put(dict) == Put(dict, pr.cmd.user_id, DocumentOf(pr.user))
        update(dict) ==
          IF pr.uc = "update" /\ pr.outcome = "ok" THEN put(dict)
          ELSE IF pr.uc = "delete" /\ pr.outcome = "ok"
               THEN Pop(dict, pr.cmd.user_id)
          ELSE dict
    IN [h EXCEPT
          !.succeeded =
             IF pr.uc = "create" /\ pr.outcome = "ok"
             THEN Put(@, pr.user.id, DocumentOf(pr.user)) ELSE update(@),
          !.committed =
             IF pr.uc = "create" /\ pr.writeReturned
             THEN Put(@, pr.user.id, DocumentOf(pr.user)) ELSE update(@)]

\* a document an earlier run of the service left in the collection
StoredBefore == (1 :> DocumentOf(Properties(NameJo, 30, EmailAB)))

Max(S) == CHOOSE x \in S : \A y \in S : y <= x

AppInit ==
    /\ repo \in RepositoryKinds
    /\ docs \in IF repo = "mongo" THEN {EmptyDict, StoredBefore}
                ELSE {EmptyDict}
    /\ nextId = Max({0} \cup DOMAIN docs) + 1
    /\ clock = 1
    /\ pool = <<>>
    /\ last = NoCall
    /\ listed = NoList
    /\ handlers = ConfiguredHandlers
    /\ batch = <<>>
    /\ log = <<>>
    /\ raised = 0
    /\ count = NoCount
    /\ subscribed = NoSubscriptions
    /\ users = EmptyDict
    /\ proc = [p \in Procs |-> Idle]
    /\ nexec = 0
    /\ history = [NoHistory EXCEPT !.succeeded = docs, !.committed = docs]

\* CreateUserUseCase.execute(command) up to the await of insert_one (mongo)
\* or, create_user of the in-memory repository awaiting nothing, to its end
CreateUserCall(p) ==
    /\ proc[p].pc = "idle"
    /\ nexec < MaxExec
    /\ nexec' = nexec + 1
    /\ \E properties \in PropertiesInputs :
         LET pr0 == Started("create", properties)
         IN IF PropertiesError(properties) # NoError
            THEN /\ proc' = [proc EXCEPT ![p] =
                               [Raised(pr0, "ValueError") EXCEPT
                                  !.message = PropertiesError(properties)]]
                 /\ history' = Called(history)
                 /\ UNCHANGED <<nextId, clock, docs, users>>
            ELSE /\ nextId <= MaxIds
                 /\ clock <= MaxEvents
                 /\ nextId' = nextId + 1
                 /\ clock' = clock + 1
                 /\ LET user == User_create(properties, nextId, clock)
                        pr1 == [pr0 EXCEPT !.user = user,
                                           !.bufBefore = user.events]
                    IN IF repo = "mongo"
                       THEN /\ proc' = [proc EXCEPT ![p] =
                                          [pr1 EXCEPT !.pc = "create_insert"]]
                            /\ history' = Called(history)
                            /\ UNCHANGED <<docs, users>>
                       ELSE \E failAt \in FailPoints(handlers, user.events) :
                              LET end == Dispatched(
                                           [pr1 EXCEPT !.writeReturned = TRUE],
                                           "user", user, failAt)
                              IN /\ proc' = [proc EXCEPT ![p] = end]
                                 \* self.users[str(id)] is the very object
                                 \* the use case goes on to work with
                                 /\ users' = Put(users, user.id, end.user)
                                 /\ history' = Noted(Called(
                                                  Recorded(user, failAt)), end)
                                 /\ UNCHANGED docs
    /\ UNCHANGED <<entityVars, dispatcherVars, repo>>

\* the insert is undone when a handler raises
CreateUserInserted_rollback(p) ==
    /\ proc[p].pc = "create_insert"
    /\ \E failAt \in FailPoints(handlers, proc[p].user.events) :
         /\ docs' = IF failAt # 0 THEN docs
                    ELSE Put(docs, proc[p].user.id, DocumentOf(proc[p].user))
         /\ proc' = [proc EXCEPT ![p] =
                       Dispatched([@ EXCEPT !.writeReturned = TRUE], "user",
                                  proc[p].user, failAt)]
         /\ history' = Noted(Recorded(proc[p].user, failAt), proc'[p])
    /\ UNCHANGED <<nextId, clock, entityVars, dispatcherVars, repo, users,
                   nexec>>

\* insert_one returned the inserted document: create_user returns, the
\* events are dispatched and the buffer is cleared
CreateUserInserted(p) ==
    /\ proc[p].pc = "create_insert"
    /\ \E failAt \in FailPoints(handlers, proc[p].user.events) :
         /\ docs' = Put(docs, proc[p].user.id, DocumentOf(proc[p].user))
         /\ proc' = [proc EXCEPT ![p] =
                       Dispatched([@ EXCEPT !.writeReturned = TRUE], "user",
                                  proc[p].user, failAt)]
         /\ history' = Noted(Recorded(proc[p].user, failAt), proc'[p])
    /\ UNCHANGED <<nextId, clock, entityVars, dispatcherVars, repo, users,
                   nexec>>

WritePcs == {"create_insert", "update_find", "update_save", "delete_find",
             "delete_delete"}
ReadPcs == {"update_read", "delete_read", "get_read"}

\* the aggregate whose events the use case dispatches
Aggregate(pr) == IF pr.uc = "delete" THEN pr.existing ELSE pr.user

\* the events are dispatched on the way out (a finally block) also when
\* the write raised
RepositoryRaises_dispatchInFinally(p) ==
    /\ proc[p].pc \in WritePcs \cup ReadPcs
    /\ IF proc[p].pc \in WritePcs
       THEN /\ proc' = [proc EXCEPT ![p] =
                 [Raised(@, "PersistenceError") EXCEPT !.invoked =
                    dispatch(handlers, Aggregate(proc[p]).events, 0).calls]]
            /\ history' = Recorded(Aggregate(proc[p]), 0)
       ELSE /\ proc' = [proc EXCEPT ![p] = Raised(@, "PersistenceError")]
            /\ UNCHANGED history
    /\ UNCHANGED <<nextId, clock, entityVars, dispatcherVars, repo, docs,
                   users, nexec>>

\* the database call a request is waiting for raises (or insert_one
\* returns nothing and create_user raises FailedToCreateUser)
RepositoryRaises(p) ==
    /\ proc[p].pc \in WritePcs \cup ReadPcs
    /\ proc' = [proc EXCEPT ![p] = Raised(@, "PersistenceError")]
    /\ UNCHANGED <<nextId, clock, entityVars, dispatcherVars, repo, docs,
                   users, nexec, history>>

\* UpdateUserCommand: the fields left out are None
UpdateFields(name, age, email) == [name |-> name, age |-> age, email |-> email]
UpdateInputs ==
    {UpdateFields(<<>>, <<>>, Some(EmailCD)),
     UpdateFields(Some(NameAl), Some(0), <<>>),
     UpdateFields(Some(NameJo), Some(30), Some(EmailAB)),
     UpdateFields(<<>>, Some(151), <<>>),
     UpdateFields(<<>>, <<>>, Some(EmailBad))}

\* "command.age if command.age else ...": an age of 0 counts as left out
UpdatedProperties_falsyAge(command, existing_user) ==
    [name |-> OrElse(command.name, existing_user.name),
     age |-> IF command.age = <<0>> THEN existing_user.age
             ELSE OrElse(command.age, existing_user.age),
     email |-> OrElse(command.email, existing_user.email)]

UpdatedProperties(command, existing_user) ==
    [name |-> OrElse(command.name, existing_user.name),
     age |-> OrElse(command.age, existing_user.age),
     email |-> OrElse(command.email, existing_user.email)]

\* UpdateUserUseCase.execute on the in-memory repository, none of whose
\* methods awaits anything: from the call to the end in one step
MemoryUpdate(pr) ==
    LET id == pr.cmd.user_id
        existing == users[id]
        properties == UpdatedProperties(pr.cmd, existing)
        updated == User_restore(existing.id, properties, nextId)
        pr1 == [pr EXCEPT !.existing = existing]
        pr2 == [pr1 EXCEPT !.user = updated, !.writeReturned = TRUE]
    IN IF id \notin DOMAIN users
       THEN [proc |-> Raised(pr, "UserNotFoundException"), users |-> users]
       ELSE IF PropertiesError(properties) # NoError
       THEN [proc |-> [Raised(pr1, "ValueError") EXCEPT
                         !.message = PropertiesError(properties)],
             users |-> users]
       ELSE IF ~Coroutine("memory", "update_user")
       THEN [proc |-> Raised([pr1 EXCEPT !.user = updated], TypeError),
             users |-> Put(users, id, updated)]
       ELSE [proc |-> Dispatched(pr2, "user", updated, 0),
             users |-> Put(users, id, updated)]

\* UpdateUserUseCase.execute(command) up to its first await
UpdateUserCall(p) ==
    /\ proc[p].pc = "idle"
    /\ nexec < MaxExec
    /\ nexec' = nexec + 1
    /\ \E user_id \in 1..MaxIds : \E fields \in UpdateInputs :
         LET pr0 == Started("update",
                      [user_id |-> user_id, name |-> fields.name,
                       age |-> fields.age, email |-> fields.email])
         IN IF ~Coroutine(repo, "get_user_by_id")
            THEN /\ proc' = [proc EXCEPT ![p] = Raised(pr0, TypeError)]
                 /\ UNCHANGED users
            ELSE IF repo = "mongo"
            THEN /\ proc' = [proc EXCEPT ![p] =
                               [pr0 EXCEPT !.pc = "update_read"]]
                 /\ UNCHANGED users
            ELSE /\ proc' = [proc EXCEPT ![p] = MemoryUpdate(pr0).proc]
                 /\ users' = MemoryUpdate(pr0).users
    /\ history' = Noted(Called(history), proc'[p])
    /\ UNCHANGED <<nextId, clock, entityVars, dispatcherVars, repo, docs>>

\* get_user_by_id's find_one returned: the precondition, the merged
\* properties, User.restore, and update_user up to its find_one
UpdateUserRead(p) ==
    /\ proc[p].pc = "update_read"
    /\ LET id == proc[p].cmd.user_id
           existing == User_restore(id, docs[id], nextId)
           properties == UpdatedProperties(proc[p].cmd, existing)
           updated == User_restore(existing.id, properties, nextId)
       IN proc' = [proc EXCEPT ![p] =
            IF id \notin DOMAIN docs
            THEN Raised(@, "UserNotFoundException")
            ELSE IF PropertiesError(properties) # NoError
            THEN [Raised([@ EXCEPT !.existing = existing], "ValueError")
                    EXCEPT !.message = PropertiesError(properties)]
            ELSE [@ EXCEPT !.pc = "update_find", !.existing = existing,
                           !.user = updated, !.bufBefore = updated.events]]
    /\ UNCHANGED <<nextId, clock, entityVars, dispatcherVars, repo, docs,
                   users, nexec, history>>

\* update_user's find_one returned: without a document update_user returns
\* None, which execute ignores, and the use case finishes
UpdateUserFound(p) ==
    /\ proc[p].pc = "update_find"
    /\ IF proc[p].cmd.user_id \in DOMAIN docs
       THEN /\ proc' = [proc EXCEPT ![p].pc = "update_save"]
            /\ UNCHANGED history
       ELSE /\ proc' = [proc EXCEPT ![p] =
                          Dispatched([@ EXCEPT !.writeReturned = TRUE],
                                     "user", proc[p].user, 0)]
            /\ history' = Noted(Recorded(proc[p].user, 0), proc'[p])
    /\ UNCHANGED <<nextId, clock, entityVars, dispatcherVars, repo, docs,
                   users, nexec>>

\* the place the next save() takes among the saves made
NextSave == Max({proc[q].savedAt : q \in Procs}) + 1

\* save() writes only the fields the command provided onto the document
\* as it stands in the collection
UpdateUserSaved_mergeFields(p) ==
    /\ proc[p].pc = "update_save"
    /\ LET id == proc[p].cmd.user_id
           cmd == proc[p].cmd
           new == DocumentOf(proc[p].user)
           old == IF id \in DOMAIN docs THEN docs[id] ELSE new
       IN docs' = Put(docs, id,
                      [name |-> IF cmd.name = <<>> THEN old.name ELSE new.name,
                       age |-> IF cmd.age = <<>> THEN old.age ELSE new.age,
                       email |-> IF cmd.email = <<>> THEN old.email
                                 ELSE new.email])
    /\ proc' = [proc EXCEPT ![p] =
                  Dispatched([@ EXCEPT !.writeReturned = TRUE,
                                       !.savedAt = NextSave], "user",
                             proc[p].user, 0)]
    /\ history' = Noted(Recorded(proc[p].user, 0), proc'[p])
    /\ UNCHANGED <<nextId, clock, entityVars, dispatcherVars, repo, users,
                   nexec>>

\* user_document.save() returned (it writes the document under its _id,
\* inserting it when it is gone) and the use case finishes
UpdateUserSaved(p) ==
    /\ proc[p].pc = "update_save"
    /\ \E failAt \in FailPoints(handlers, proc[p].user.events) :
         /\ docs' = Put(docs, proc[p].cmd.user_id, DocumentOf(proc[p].user))
         /\ proc' = [proc EXCEPT ![p] =
                       Dispatched([@ EXCEPT !.writeReturned = TRUE,
                                            !.savedAt = NextSave], "user",
                                  proc[p].user, failAt)]
         /\ history' = Noted(Recorded(proc[p].user, failAt), proc'[p])
    /\ UNCHANGED <<nextId, clock, entityVars, dispatcherVars, repo, users,
                   nexec>>

\* DeleteUserUseCase.execute on the in-memory repository, in one step
MemoryDelete(pr, failAt) ==
    LET id == pr.cmd.user_id
        existing == users[id]
        pr1 == [pr EXCEPT !.existing = existing, !.bufBefore = existing.events]
    IN IF id \notin DOMAIN users
       THEN [proc |-> Raised(pr, "UserNotFoundException"), users |-> users,
             history |-> history]
       ELSE IF ~Coroutine("memory", "delete_user")
       THEN [proc |-> Raised(pr1, TypeError), users |-> Pop(users, id),
             history |-> history]
       ELSE [proc |-> Dispatched([pr1 EXCEPT !.writeReturned = TRUE],
                                 "existing", existing, failAt),
             users |-> Pop(users, id),
             history |-> Recorded(existing, failAt)]

MemoryDeleteFailPoints(user_id) ==
    IF user_id \in DOMAIN users
    THEN FailPoints(handlers, users[user_id].events) ELSE {0}

\* DeleteUserUseCase.execute(command) up to its first await
DeleteUserCall(p) ==
    /\ proc[p].pc = "idle"
    /\ nexec < MaxExec
    /\ nexec' = nexec + 1
    /\ \E user_id \in 1..MaxIds :
         LET pr0 == Started("delete", [user_id |-> user_id])
         IN IF ~Coroutine(repo, "get_user_by_id")
            THEN /\ proc' = [proc EXCEPT ![p] = Raised(pr0, TypeError)]
                 /\ history' = Called(history)
                 /\ UNCHANGED users
            ELSE IF repo = "mongo"
            THEN /\ proc' = [proc EXCEPT ![p] =
                               [pr0 EXCEPT !.pc = "delete_read"]]
                 /\ history' = Called(history)
                 /\ UNCHANGED users
            ELSE \E failAt \in MemoryDeleteFailPoints(user_id) :
                   /\ proc' = [proc EXCEPT ![p] =
                                 MemoryDelete(pr0, failAt).proc]
                   /\ users' = MemoryDelete(pr0, failAt).users
                   /\ history' = Noted(Called(
                                    MemoryDelete(pr0, failAt).history),
                                    proc'[p])
    /\ UNCHANGED <<nextId, clock, entityVars, dispatcherVars, repo, docs>>

\* deleting a user that is not there is not an error
DeleteUserRead_idempotent(p) ==
    /\ proc[p].pc = "delete_read"
    /\ LET id == proc[p].cmd.user_id
           existing == User_restore(id, docs[id], nextId)
       IN proc' = [proc EXCEPT ![p] =
            IF id \in DOMAIN docs
            THEN [@ EXCEPT !.pc = "delete_find", !.existing = existing,
                           !.bufBefore = existing.events]
            ELSE [@ EXCEPT !.pc = "idle", !.outcome = "ok"]]
    /\ UNCHANGED <<nextId, clock, entityVars, dispatcherVars, repo, docs,
                   users, nexec, history>>

\* get_user_by_id's find_one returned: the precondition, and delete_user
\* up to its find_one
DeleteUserRead(p) ==
    /\ proc[p].pc = "delete_read"
    /\ LET id == proc[p].cmd.user_id
           existing == User_restore(id, docs[id], nextId)
       IN proc' = [proc EXCEPT ![p] =
            IF id \notin DOMAIN docs
            THEN Raised(@, "UserNotFoundException")
            ELSE [@ EXCEPT !.pc = "delete_find", !.existing = existing,
                           !.bufBefore = existing.events]]
    /\ UNCHANGED <<nextId, clock, entityVars, dispatcherVars, repo, docs,
                   users, nexec, history>>

\* delete_user's find_one returned: without a document delete_user returns
\* None and the use case finishes
DeleteUserFound(p) ==
    /\ proc[p].pc = "delete_find"
    /\ IF proc[p].cmd.user_id \in DOMAIN docs
       THEN /\ proc' = [proc EXCEPT ![p].pc = "delete_delete"]
            /\ UNCHANGED history
       ELSE /\ proc' = [proc EXCEPT ![p] =
                          Dispatched([@ EXCEPT !.writeReturned = TRUE],
                                     "existing", proc[p].existing, 0)]
            /\ history' = Noted(Recorded(proc[p].existing, 0), proc'[p])
    /\ UNCHANGED <<nextId, clock, entityVars, dispatcherVars, repo, docs,
                   users, nexec>>

\* user_document.delete() returned and the use case finishes
DeleteUserDeleted(p) ==
    /\ proc[p].pc = "delete_delete"
    /\ \E failAt \in FailPoints(handlers, proc[p].existing.events) :
         /\ docs' = Pop(docs, proc[p].cmd.user_id)
         /\ proc' = [proc EXCEPT ![p] =
                       Dispatched([@ EXCEPT !.writeReturned = TRUE],
                                  "existing", proc[p].existing, failAt)]
         /\ history' = Noted(Recorded(proc[p].existing, failAt), proc'[p])
    /\ UNCHANGED <<nextId, clock, entityVars, dispatcherVars, repo, users,
                   nexec>>

\* GetUserUseCase.execute(query) up to its await
GetUserCall(p) ==
    /\ proc[p].pc = "idle"
    /\ nexec < MaxExec
    /\ nexec' = nexec + 1
    /\ \E user_id \in 1..MaxIds :
         LET pr0 == Started("get", [user_id |-> user_id])
         IN proc' = [proc EXCEPT ![p] =
              IF ~Coroutine(repo, "get_user_by_id")
              THEN Raised(pr0, TypeError)
              ELSE IF repo = "mongo" THEN [pr0 EXCEPT !.pc = "get_read"]
              ELSE IF user_id \notin DOMAIN users
              THEN Raised(pr0, "ValueError")
              ELSE [pr0 EXCEPT !.user = users[user_id], !.outcome = "ok"]]
    /\ history' = Called(history)
    /\ UNCHANGED <<nextId, clock, entityVars, dispatcherVars, repo, docs,
                   users>>

\* "User if found, None otherwise": nothing is raised for a missing user
GetUserRead_returnsNone(p) ==
    /\ proc[p].pc = "get_read"
    /\ LET id == proc[p].cmd.user_id
       IN proc' = [proc EXCEPT ![p] =
            IF id \notin DOMAIN docs
            THEN [@ EXCEPT !.pc = "idle", !.outcome = "ok"]
            ELSE [@ EXCEPT !.pc = "idle", !.outcome = "ok",
                           !.user = User_restore(id, docs[id], nextId)]]
    /\ UNCHANGED <<nextId, clock, entityVars, dispatcherVars, repo, docs,
                   users, nexec, history>>

\* get_user_by_id's find_one returned
GetUserRead(p) ==
    /\ proc[p].pc = "get_read"
    /\ LET id == proc[p].cmd.user_id
       IN proc' = [proc EXCEPT ![p] =
            IF id \notin DOMAIN docs THEN Raised(@, "ValueError")
            ELSE [@ EXCEPT !.pc = "idle", !.outcome = "ok",
                           !.user = User_restore(id, docs[id], nextId)]]
    /\ UNCHANGED <<nextId, clock, entityVars, dispatcherVars, repo, docs,
                   users, nexec, history>>

Next ==
    \E p \in Procs :
      \/ CreateUserCall(p)
      \/ CreateUserInserted(p)
      \/ UpdateUserCall(p)
      \/ UpdateUserRead(p)
      \/ UpdateUserFound(p)
      \/ UpdateUserSaved(p)
      \/ DeleteUserCall(p)
      \/ DeleteUserRead(p)
      \/ DeleteUserFound(p)
      \/ DeleteUserDeleted(p)
      \/ GetUserCall(p)
      \/ GetUserRead(p)
      \/ RepositoryRaises(p)

Spec == AppInit /\ [][Next]_vars

(**************************************************************************)
(* Properties of the application specification.                           *)
(**************************************************************************)
\* C1: a handler is called by an execution only after its repository
\* write returned; when the write raised, the execution called no handler
\* and the aggregate's buffer holds what it held before the write (for
\* CreateUser the UserCreated event).
C1_DispatchOnlyAfterWrite ==
    \A p \in Procs :
      /\ proc[p].invoked # <<>> => proc[p].writeReturned
      /\ proc[p].failedAt \in WritePcs =>
            /\ proc[p].invoked = <<>>
            /\ ~proc[p].writeReturned
            /\ Aggregate(proc[p]).events = proc[p].bufBefore
            /\ proc[p].uc = "create" =>
                  /\ Len(proc[p].user.events) = 1
                  /\ proc[p].user.events[1].type = UserCreatedType

\* one CreateUser whose insert raised, its event still buffered, and one
\* CreateUser whose handlers were called after the insert
C1_Witness ==
    \E p, q \in Procs :
      /\ proc[p].uc = "create"
      /\ proc[p].failedAt = "create_insert"
      /\ Len(proc[p].user.events) = 1
      /\ proc[q].uc = "create"
      /\ proc[q].writeReturned
      /\ Len(proc[q].invoked) = 3

NoDuplicates(seq) ==
    \A i, j \in 1..Len(seq) : i # j => seq[i] # seq[j]

\* C2: over all executions, no event instance is in more than one list
\* given to dispatch and none is given twice to one subscription.
C2_NoEventDispatchedTwice ==
    /\ NoDuplicates(history.passed)
    /\ NoDuplicates(history.handled)

\* a CreateUser whose handler raised, followed by a completed DeleteUser
\* of the user it stored
C2_Witness ==
    \E p, q \in Procs :
      /\ proc[p].uc = "create"
      /\ proc[p].outcome = "HandlerError"
      /\ proc[q].uc = "delete"
      /\ proc[q].outcome = "ok"
      /\ proc[q].n > proc[p].n
      /\ proc[q].cmd.user_id = proc[p].user.id
      /\ proc[q].writeReturned
      /\ proc[p].user.id \notin DOMAIN docs

\* the step in which the execution of request p ends
Ends(p) ==
    /\ proc'[p].pc = "idle"
    /\ proc[p].pc # "idle" \/ proc'[p].n # proc[p].n

\* C5: when a CreateUser ends with the error of a handler, the user it
\* wrote is in the repository at that moment: the write is not undone.
C5_HandlerErrorKeepsWrite ==
    [][\A p \in Procs :
         (Ends(p) /\ proc'[p].uc = "create"
                  /\ proc'[p].outcome = "HandlerError") =>
           LET user == proc'[p].user
           IN IF repo = "mongo"
              THEN /\ user.id \in DOMAIN docs'
                   /\ docs'[user.id] = DocumentOf(user)
              ELSE /\ user.id \in DOMAIN users'
                   /\ users'[user.id] = user]_vars

\* a CreateUser ended with a handler's error after the first handler had
\* run, and its user is stored
C5_Witness ==
    \E p \in Procs :
      /\ proc[p].uc = "create"
      /\ proc[p].outcome = "HandlerError"
      /\ Len(proc[p].invoked) = 2
      /\ repo = "mongo"
      /\ proc[p].user.id \in DOMAIN docs

\* the value UpdateUser takes for a field: the one provided, else the one kept
Merged(provided, kept) == IF provided = <<>> THEN kept ELSE provided[1]

C14_UnknownIdFailsNotFound ==
    [][\A p \in Procs :
         (/\ proc[p].pc \in {"update_read", "delete_read"}
          /\ proc'[p] # proc[p]
          /\ proc'[p].outcome # "PersistenceError"
          /\ proc[p].cmd.user_id \notin DOMAIN docs) =>
           /\ proc'[p].pc = "idle"
           /\ proc'[p].outcome = "UserNotFoundException"
           /\ ~proc'[p].writeReturned
           /\ proc'[p].invoked = <<>>
           /\ docs' = docs
           /\ history'.passed = history.passed]_vars

\* an UpdateUser and a DeleteUser both failed for an identifier that a
\* repository holding another user does not hold
C14_Witness ==
    \E p, q \in Procs :
      /\ proc[p].uc = "update" /\ proc[q].uc = "delete"
      /\ proc[p].outcome = "UserNotFoundException"
      /\ proc[q].outcome = "UserNotFoundException"
      /\ proc[p].cmd.user_id \notin DOMAIN docs
      /\ proc[q].cmd.user_id \notin DOMAIN docs
      /\ docs = StoredBefore

\* the step in which a GetUser of a sequential run on the repository the
\* container builds ends, its read having returned
GetEnds(p) ==
    /\ Ends(p)
    /\ proc'[p].uc = "get"
    /\ proc'[p].outcome # "PersistenceError"
    /\ repo = "mongo"
    /\ ~history'.overlapped

\* GetUser returns a User exactly for the identifiers of expected, with
\* the fields expected holds, and otherwise raises its not-found error
GetAgrees(pr, expected) ==
    /\ pr.outcome = "ok" <=> pr.cmd.user_id \in DOMAIN expected
    /\ pr.outcome = "ok" =>
          /\ pr.user.id = pr.cmd.user_id
          /\ DocumentOf(pr.user) = expected[pr.cmd.user_id]
    /\ pr.outcome # "ok" => pr.outcome = "ValueError"

\* C15 as stated: in a sequential run GetUser(id) returns a User exactly
\* when id was produced by a CreateUser that returned without an error
\* and no DeleteUser(id) has succeeded since, with the fields of the latest
\* successful CreateUser/UpdateUser; otherwise it fails with not-found.
C15_GetReturnsSucceeded ==
    [][\A p \in Procs :
         GetEnds(p) => GetAgrees(proc'[p], history'.succeeded)]_vars

\* C15, amended: in a sequential run GetUser(id) returns a User exactly
\* when id was produced by a CreateUser whose repository write returned,
\* whether or not a handler raised afterwards, and no DeleteUser(id) has
\* succeeded since, with the fields of that CreateUser or of the latest
\* successful UpdateUser; otherwise it fails with not-found.
C15_GetReturnsCommitted ==
    [][\A p \in Procs :
         GetEnds(p) => GetAgrees(proc'[p], history'.committed)]_vars

\* a CreateUser that ended with a handler's error, then a GetUser that
\* returned its user
C15_Witness ==
    \E p, q \in Procs :
      /\ ~history.overlapped
      /\ proc[p].uc = "create" /\ proc[p].outcome = "HandlerError"
      /\ proc[q].uc = "get" /\ proc[q].outcome = "ok"
      /\ proc[q].n > proc[p].n
      /\ proc[q].cmd.user_id = proc[p].user.id
      /\ DocumentOf(proc[q].user) = DocumentOf(proc[p].user)

\* C16: a CreateUser with an invalid field ends with the ValueError of
\* the first invalid field in the order name, age, email; it created no
\* User, wrote nothing to the repository and called no handler.
C16_CreateFailsOnFirstInvalidField ==
    [][\A p \in Procs :
         LET pr == proc'[p]
             first ==
               IF NameError(pr.cmd.name) # NoError
               THEN NameError(pr.cmd.name)
               ELSE IF AgeError(pr.cmd.age) # NoError
               THEN AgeError(pr.cmd.age)
               ELSE EmailError(pr.cmd.email)
         IN (Ends(p) /\ pr.uc = "create" /\ first # NoError) =>
              /\ pr.outcome = "ValueError"
              /\ pr.message = first
              /\ pr.user = <<>>
              /\ pr.invoked = <<>>
              /\ ~pr.writeReturned
              /\ UNCHANGED <<docs, users, nextId>>
              /\ history'.passed = history.passed]_vars

\* a CreateUser with a too short name and a malformed email failed with
\* the error of the name
C16_Witness ==
    \E p \in Procs :
      /\ proc[p].uc = "create"
      /\ proc[p].outcome = "ValueError"
      /\ NameError(proc[p].cmd.name) # NoError
      /\ EmailError(proc[p].cmd.email) # NoError
      /\ proc[p].message = "Name must have at least 2 characters"

\* C17: an execution of DeleteUser calls no handler, and the list it
\* gives to dispatch, when it gets that far, is empty.
C17_DeleteDispatchesNothing ==
    \A p \in Procs :
      proc[p].uc = "delete" =>
        /\ proc[p].invoked = <<>>
        /\ proc[p].writeReturned => proc[p].bufBefore = <<>>

\* a DeleteUser that deleted the user a CreateUser had stored
C17_Witness ==
    \E p, q \in Procs :
      /\ proc[p].uc = "create" /\ proc[p].outcome = "ok"
      /\ proc[q].uc = "delete" /\ proc[q].outcome = "ok"
      /\ proc[q].writeReturned
      /\ proc[q].n > proc[p].n
      /\ proc[q].cmd.user_id = proc[p].user.id
      /\ proc[p].user.id \notin DOMAIN docs

\* two UpdateUser executions for one identifier that both saved and ended
Saved(p, q) ==
    /\ p # q
    /\ proc[p].uc = "update" /\ proc[q].uc = "update"
    /\ proc[p].pc = "idle" /\ proc[q].pc = "idle"
    /\ proc[p].savedAt > 0 /\ proc[q].savedAt > 0
    /\ proc[p].cmd.user_id = proc[q].cmd.user_id

\* C18: once two UpdateUser executions for one identifier have both
\* saved and ended, the stored record is the whole aggregate of the one
\* that saved last, whatever the other one wrote.
C18_LastSaveWins ==
    \A p, q \in Procs :
      (Saved(p, q) /\ proc[p].savedAt < proc[q].savedAt) =>
        /\ proc[q].cmd.user_id \in DOMAIN docs
        /\ docs[proc[q].cmd.user_id] = DocumentOf(proc[q].user)

\* the earlier writer changed the email alone; the later writer, which
\* left the email out and had read the user before that change, put the
\* old email back
C18_Witness ==
    \E p, q \in Procs :
      /\ Saved(p, q) /\ proc[p].savedAt < proc[q].savedAt
      /\ proc[p].cmd.email # <<>>
      /\ proc[p].user.email # proc[p].existing.email
      /\ proc[q].cmd.email = <<>>
      /\ docs[proc[q].cmd.user_id].email = proc[q].existing.email
      /\ docs[proc[q].cmd.user_id].email # proc[p].user.email

\* C22: a CreateUser or UpdateUser that is accepted has an age between 18
\* and 120, and so has every user stored.
C22_AgeBetween18And120 ==
    /\ \A p \in Procs :
          (proc[p].uc \in {"create", "update"} /\ proc[p].outcome = "ok") =>
            (proc[p].user.age >= 18 /\ proc[p].user.age <= 120)
    /\ \A id \in DOMAIN docs : docs[id].age >= 18 /\ docs[id].age <= 120
    /\ \A id \in DOMAIN users : users[id].age >= 18 /\ users[id].age <= 120

\* C23: no two stored users have the same email.
C23_EmailsUnique ==
    /\ \A i, j \in DOMAIN docs : i # j => docs[i].email # docs[j].email
    /\ \A i, j \in DOMAIN users : i # j => users[i].email # users[j].email

\* C26: in every state of the application the registry of the dispatcher
\* is the one the startup configuration built: UserCreated and
\* UserEmailChanged, each with the notification, audit and analytics
\* handlers in that order.
C26_RegistryFixed ==
    /\ DOMAIN handlers = {UserCreatedType, UserEmailChangedType}
    /\ handlers[UserCreatedType] = <<"notification", "audit", "analytics">>
    /\ handlers[UserEmailChangedType] =
          <<"notification", "audit", "analytics">>

\* the registry after one CreateUser whose three handlers returned and one
\* whose second handler raised
C26_Witness ==
    \E p, q \in Procs :
      /\ proc[p].uc = "create" /\ proc[p].outcome = "ok"
      /\ Len(proc[p].invoked) = 3
      /\ proc[q].uc = "create" /\ proc[q].outcome = "HandlerError"
      /\ Len(proc[q].invoked) = 2
      /\ get_handler_count(handlers, UserCreatedType) = 3
      /\ get_handler_count(handlers, UserEmailChangedType) = 3

\* C27: no UpdateUser execution calls a handler: the aggregate it gives to
\* dispatch comes from restore and has an empty buffer, also when the
\* update changes the email.
C27_UpdateDeliversNothing ==
    \A p \in Procs :
      proc[p].uc = "update" =>
        /\ proc[p].invoked = <<>>
        /\ proc[p].bufBefore = <<>>
        /\ proc[p].pc \in {"update_find", "update_save"} =>
              proc[p].user.events = <<>>

\* an UpdateUser that stored another email and returned
C27_Witness ==
    \E p \in Procs :
      /\ proc[p].uc = "update"
      /\ proc[p].pc = "idle" /\ proc[p].outcome = "ok"
      /\ proc[p].savedAt > 0
      /\ proc[p].cmd.email # <<>>
      /\ proc[p].user.email # proc[p].existing.email
      /\ proc[p].invoked = <<>>

\* C28: when an UpdateUser execution returns a User, the repository holds
\* under the identifier of the command a record with the fields of that
\* User, whatever other executions ran between its read and its write.
C28_ReturnedUpdateWasWritten ==
    [][\A p \in Procs :
         (Ends(p) /\ proc'[p].uc = "update" /\ proc'[p].outcome = "ok") =>
           /\ proc'[p].cmd.user_id \in DOMAIN docs'
           /\ docs'[proc'[p].cmd.user_id] = DocumentOf(proc'[p].user)]_vars

=============================================================================
